---------------------------- MODULE Spec2Model ----------------------------
(***************************************************************************)
(* Model of the duration-fitting text-to-speech service                    *)
(* (backend/tts_service.py, EdgeTTSService) and of the request layer that  *)
(* calls it (backend/main.py).                                             *)
(*                                                                         *)
(* Texts are kept run-length encoded (a sequence of [c, n] runs) so that   *)
(* the 4000 character limit of the source can be kept as it is.  Python    *)
(* floats are IEEE 754 binary64 values; the rate computation is modelled   *)
(* on exact limb sequences with round-to-nearest-even after each operation.*)
(***************************************************************************)
EXTENDS Integers, Sequences, FiniteSets, TLC

\* ------------------------------------------------------------------------
\* Natural numbers of arbitrary size as sequences of limbs (digits in base
\* 2^LimbBits), least significant limb first: Python integers and float
\* significands do not fit TLC's integers
\* ------------------------------------------------------------------------

LimbBits == 8

RECURSIVE Pow2(_)
Pow2(k) == IF k = 0 THEN 1 ELSE 2 * Pow2(k - 1)

Base == Pow2(LimbBits)

RECURSIVE NatToLimbs(_)
NatToLimbs(n) ==
    IF n = 0 THEN << >> ELSE <<n % Base>> \o NatToLimbs(n \div Base)

RECURSIVE LimbsToNat(_)
LimbsToNat(b) ==
    IF b = << >> THEN 0 ELSE Head(b) + Base * LimbsToNat(Tail(b))

RECURSIVE Trim(_)
Trim(b) ==
    IF b = << >> THEN << >>
    ELSE IF b[Len(b)] = 0 THEN Trim(SubSeq(b, 1, Len(b) - 1))
    ELSE b

RECURSIVE SmallBitLen(_)
SmallBitLen(n) == IF n = 0 THEN 0 ELSE 1 + SmallBitLen(n \div 2)

\* number of significant bits of a trimmed limb sequence
BitLen(b) ==
    IF b = << >> THEN 0
    ELSE LimbBits * (Len(b) - 1) + SmallBitLen(b[Len(b)])

\* bit i (bit 0 is the least significant)
Bit(b, i) ==
    IF (i \div LimbBits) + 1 > Len(b) THEN 0
    ELSE (b[(i \div LimbBits) + 1] \div Pow2(i % LimbBits)) % 2

RECURSIVE AddCarry(_, _, _)
AddCarry(x, y, c) ==
    IF x = << >> /\ y = << >>
    THEN IF c = 0 THEN << >> ELSE <<c>>
    ELSE LET a == IF x = << >> THEN 0 ELSE Head(x)
             b == IF y = << >> THEN 0 ELSE Head(y)
             s == a + b + c
         IN  <<s % Base>> \o AddCarry(IF x = << >> THEN x ELSE Tail(x),
                                      IF y = << >> THEN y ELSE Tail(y),
                                      s \div Base)

AddLimbs(x, y) == AddCarry(x, y, 0)

\* x - y for x >= y
RECURSIVE SubBorrow(_, _, _)
SubBorrow(x, y, c) ==
    IF x = << >> THEN << >>
    ELSE LET b == IF y = << >> THEN 0 ELSE Head(y)
             d == Head(x) - b - c
         IN  <<d % Base>> \o SubBorrow(Tail(x),
                                       IF y = << >> THEN y ELSE Tail(y),
                                       IF d < 0 THEN 1 ELSE 0)

SubLimbs(x, y) == Trim(SubBorrow(x, y, 0))

\* x >= y, both trimmed
RECURSIVE GeqFrom(_, _, _)
GeqFrom(x, y, i) ==
    IF i = 0 THEN TRUE
    ELSE IF x[i] # y[i] THEN x[i] > y[i]
    ELSE GeqFrom(x, y, i - 1)

GeqLimbs(x, y) ==
    IF Len(x) # Len(y) THEN Len(x) > Len(y) ELSE GeqFrom(x, y, Len(x))

\* x * m for a small m (Base * m within TLC's integers)
RECURSIVE MulCarry(_, _, _)
MulCarry(x, m, c) ==
    IF x = << >> THEN NatToLimbs(c)
    ELSE LET p == Head(x) * m + c
         IN  <<p % Base>> \o MulCarry(Tail(x), m, p \div Base)

MulSmall(x, m) == Trim(MulCarry(x, m, 0))

ShiftLeft(b, k) ==
    IF b = << >> THEN << >>
    ELSE [i \in 1..(k \div LimbBits) |-> 0] \o MulSmall(b, Pow2(k % LimbBits))

ShiftRight(b, k) ==
    LET whole == (k \div LimbBits) + 1
        up    == MulSmall(b, Pow2(LimbBits - (k % LimbBits)))
    IN  IF whole >= Len(up) THEN << >> ELSE SubSeq(up, whole + 1, Len(up))

\* ------------------------------------------------------------------------
\* Python float: sign, significand (limbs) and binary exponent; the value
\* is (-1)^neg * man * 2^exp
\* ------------------------------------------------------------------------

Precision == 53

Float(neg, man, exp) == [neg |-> neg, man |-> man, exp |-> exp]

\* round-to-nearest, ties-to-even, to Precision significant bits
RoundFloat(neg, man0, exp) ==
    LET man  == Trim(man0)
        drop == BitLen(man) - Precision
    IN  IF drop <= 0 THEN Float(neg, man, exp)
        ELSE LET kept   == ShiftRight(man, drop)
                 half   == Bit(man, drop - 1) = 1
                 sticky == \E i \in 0..(drop - 2) : Bit(man, i) = 1
                 odd    == Bit(kept, 0) = 1
                 up     == half /\ (sticky \/ odd)
             IN  Float(neg,
                       IF up THEN AddLimbs(kept, <<1>>) ELSE kept,
                       exp + drop)

\* the next k limbs of rem / t (rem < t, Base * t within TLC's integers),
\* most significant LAST
RECURSIVE FracLimbs(_, _, _)
FracLimbs(rem, t, k) ==
    IF k = 0 THEN << >>
    ELSE FracLimbs((Base * rem) % t, t, k - 1) \o <<(Base * rem) \div t>>

RECURSIVE FracRem(_, _, _)
FracRem(rem, t, k) ==
    IF k = 0 THEN rem ELSE FracRem((Base * rem) % t, t, k - 1)

Abs(n) == IF n < 0 THEN -n ELSE n

\* a / t of two Python ints (true division), t # 0, both below 2^21 in
\* magnitude: the quotient is taken to k limbs after the point (at
\* least Precision + 2 significant bits) with a sticky limb for the rest
FloatDiv(a, t) ==
    LET d      == Abs(t)
        k      == ((Precision + 24) \div LimbBits) + 1
        ip     == Abs(a) \div d
        rem    == Abs(a) % d
        sticky == IF FracRem(rem, d, k) = 0 THEN 0 ELSE 1
        man    == <<sticky>> \o FracLimbs(rem, d, k) \o NatToLimbs(ip)
    IN  RoundFloat((a < 0) # (t < 0), man, -(LimbBits * (k + 1)))

\* f - 1.0 for a float with exp <= 0
FloatSubOne(f) ==
    LET one == ShiftLeft(<<1>>, -f.exp)
        man == Trim(f.man)
    IN  IF f.neg \/ man = << >>
        THEN RoundFloat(TRUE, AddLimbs(man, one), f.exp)
        ELSE IF GeqLimbs(man, one)
        THEN RoundFloat(FALSE, SubLimbs(man, one), f.exp)
        ELSE RoundFloat(TRUE, SubLimbs(one, man), f.exp)

\* f * 100
FloatMul100(f) == RoundFloat(f.neg, MulSmall(f.man, 100), f.exp)

\* int(f): truncation toward zero
FloatToInt(f) ==
    LET mag == IF f.exp >= 0 THEN ShiftLeft(Trim(f.man), f.exp)
               ELSE ShiftRight(Trim(f.man), -f.exp)
        n   == LimbsToNat(mag)
    IN  IF f.neg THEN -n ELSE n

\* int((actual_duration / target_duration_ms - 1) * 100)
ExtraRatePercent(actual, target) ==
    FloatToInt(FloatMul100(FloatSubOne(FloatDiv(actual, target))))

\* ------------------------------------------------------------------------
\* Texts, run-length encoded: "aaab" is <<[c |-> "a", n |-> 3],
\* [c |-> "b", n |-> 1]>>; neighbouring runs hold different characters
\* ------------------------------------------------------------------------

Run(c, n) == [c |-> c, n |-> n]

RECURSIVE TextLen(_)
\* len(text)
TextLen(t) == IF t = << >> THEN 0 ELSE Head(t).n + TextLen(Tail(t))

Whitespace == {" ", "\t", "\n"}

\* text.strip(): leading and trailing whitespace runs removed
RECURSIVE StripLeft(_)
StripLeft(t) ==
    IF t = << >> THEN << >>
    ELSE IF Head(t).c \in Whitespace THEN StripLeft(Tail(t))
    ELSE t

RECURSIVE StripRight(_)
StripRight(t) ==
    IF t = << >> THEN << >>
    ELSE IF t[Len(t)].c \in Whitespace THEN StripRight(SubSeq(t, 1, Len(t) - 1))
    ELSE t

Strip(t) == StripRight(StripLeft(t))

\* text[:k]
RECURSIVE Prefix(_, _)
Prefix(t, k) ==
    IF k <= 0 \/ t = << >> THEN << >>
    ELSE IF Head(t).n >= k THEN <<Run(Head(t).c, k)>>
    ELSE <<Head(t)>> \o Prefix(Tail(t), k - Head(t).n)

\* s + t
Concat(s, t) ==
    IF s = << >> THEN t
    ELSE IF t = << >> THEN s
    ELSE IF s[Len(s)].c = Head(t).c
    THEN SubSeq(s, 1, Len(s) - 1)
         \o <<Run(Head(t).c, s[Len(s)].n + Head(t).n)>>
         \o Tail(t)
    ELSE s \o t

Ellipsis == <<Run(".", 3)>>

MaxTextLen == 4000

\* tts_service.py: `not text or not text.strip()`
IsBlank_NoStrip(t) == t = << >>

IsBlank(t) == t = << >> \/ Strip(t) = << >>

\* tts_service.py: `if len(text) > 4000: text = text[:4000] + "..."`
Truncate_NoEllipsis(t) ==
    IF TextLen(t) > MaxTextLen THEN Prefix(t, MaxTextLen) ELSE t

Truncate_Identity(t) == t

Truncate(t) ==
    IF TextLen(t) > MaxTextLen
    THEN Concat(Prefix(t, MaxTextLen), Ellipsis)
    ELSE t

\* ------------------------------------------------------------------------
\* Strings that are built or compared character by character (the rate)
\* ------------------------------------------------------------------------

Digit(d) == <<"0", "1", "2", "3", "4", "5", "6", "7", "8", "9">>[d + 1]

RECURSIVE NatToChars(_)
NatToChars(n) ==
    IF n < 10 THEN <<Digit(n)>> ELSE NatToChars(n \div 10) \o <<Digit(n % 10)>>

\* str(n) of a Python int
IntToChars(n) == IF n < 0 THEN <<"-">> \o NatToChars(-n) ELSE NatToChars(n)

\* f"+{extra_rate_percent}%"
FormatRate(p) == <<"+">> \o IntToChars(p) \o <<"%">>

\* ------------------------------------------------------------------------
\* Values: Optional[x] is << >> (None) or <<x>>
\* ------------------------------------------------------------------------

None == << >>

Some(x) == <<x>>

\* a file of temp_audio/: audio is the play length in ms that mutagen reads
\* from it, None when it cannot be parsed
NoFile == [exists |-> FALSE, size |-> 0, audio |-> None]

File(size, audio) == [exists |-> TRUE, size |-> size, audio |-> audio]

\* ------------------------------------------------------------------------
\* The inputs the model draws from
\* ------------------------------------------------------------------------

NumPaths == 2

\* the names tempfile can give a file of temp_audio/
Paths == 1..NumPaths

Texts ==
    { << >>,
      <<Run(" ", 2), Run("\n", 1)>>,
      <<Run("t", 1), Run("e", 1), Run("s", 1), Run("z", 1), Run("t", 1)>>,
      <<Run(" ", 1), Run("a", 1)>>,
      <<Run("a", 2000)>>,
      <<Run("a", 2001)>>,
      <<Run("a", 4000)>>,
      <<Run("a", 3999), Run("b", 2)>>,
      <<Run("a", 2500), Run("b", 2500)>> }

DefaultVoice == "hu-HU-NoemiNeural"
DefaultRate == <<"+", "0", "%">>
DefaultPitch == "+0Hz"
DefaultVolume == <<"+", "0", "%">>

\* (voice, rate, pitch, volume) as a caller may send them
Profiles ==
    { [voice |-> DefaultVoice, rate |-> DefaultRate,
       pitch |-> DefaultPitch, volume |-> DefaultVolume],
      [voice |-> "hu-HU-TamasNeural", rate |-> <<"-", "1", "0", "%">>,
       pitch |-> "+5Hz", volume |-> <<"+", "2", "0", "%">>] }

\* target_duration_ms as a caller may send it
Targets == {None, Some(-1000), Some(0), Some(1000)}

\* what mutagen reads from a complete file the backend has written
Audios == {None, Some(500), Some(1000), Some(1005), Some(1050), Some(1150),
           Some(2000)}

\* ------------------------------------------------------------------------
\* State
\* ------------------------------------------------------------------------

VARIABLES
    pc,        \* where each request is
    running,   \* the coroutine the event loop is running, None when all wait
    req,       \* the arguments each request came with, and its route
    text,      \* text_to_speech's text (after truncation)
    path,      \* text_to_speech's temp_path
    rate,      \* the rate of the pending _generate_audio call
    pass,      \* 1: initial synthesis, 2: re-synthesis
    success,   \* text_to_speech's success (what _generate_audio returned)
    actual,    \* text_to_speech's actual_duration
    result,    \* what text_to_speech returned, None before
    fs,        \* temp_audio/: the file at each path
    calls,     \* history: the arguments of each _generate_audio call
    raised,    \* history: whether the backend raised in each call
    rets,      \* history: what each _generate_audio call returned
    measured,  \* history: each file _get_mp3_duration_ms read (its audio)
               \* and the value it returned (ms)
    unlinks,   \* history: how often os.unlink(temp_path) ran
    divisors,  \* history: each target the ratio was divided by
    extras,    \* history: each clamped extra_rate_percent (lines 138-142)
    creates,   \* history: how many files were created at temp_path
    tasks,     \* main.py: per request, the background tasks it has added
    voices_cache,  \* EdgeTTSService.voices_cache
    cache_time,    \* EdgeTTSService.cache_time
    now,           \* time.time()
    vpc,       \* per caller of get_available_voices: its position
    vforce,    \* per caller: force_refresh, while it is in the call
    vtime,     \* per caller: current_time (line 24), while it is in the call
    vret,      \* the last return of get_available_voices: to whom, and what
    lastFetch  \* history: the latest-started fetch that has succeeded

handlerVars == <<tasks>>

cacheVars == <<voices_cache, cache_time, now, vpc, vforce, vtime, vret,
               lastFetch>>

vars == <<pc, running, req, text, path, rate, pass, success, actual, result,
          fs, calls, raised, rets, measured, unlinks, divisors, extras,
          creates, handlerVars, cacheVars>>

Reqs == DOMAIN pc

\* concurrent callers of get_available_voices
NumCallers == 2

Callers == 1..NumCallers

NoReq == [via |-> "none", text |-> << >>, voice |-> DefaultVoice,
          rate |-> DefaultRate, pitch |-> DefaultPitch,
          volume |-> DefaultVolume, target |-> None]

InitFor(R) ==
    /\ pc = [r \in R |-> "idle"]
    /\ running = None
    /\ req = [r \in R |-> NoReq]
    /\ text = [r \in R |-> << >>]
    /\ path = [r \in R |-> None]
    /\ rate = [r \in R |-> DefaultRate]
    /\ pass = [r \in R |-> 1]
    /\ success = [r \in R |-> FALSE]
    /\ actual = [r \in R |-> 0]
    /\ result = [r \in R |-> None]
    /\ fs = [p \in Paths |-> NoFile]
    /\ calls = [r \in R |-> << >>]
    /\ raised = [r \in R |-> << >>]
    /\ rets = [r \in R |-> << >>]
    /\ measured = [r \in R |-> << >>]
    /\ unlinks = [r \in R |-> 0]
    /\ divisors = [r \in R |-> << >>]
    /\ extras = [r \in R |-> << >>]
    /\ creates = [r \in R |-> 0]
    /\ tasks = [r \in R |-> << >>]
    /\ voices_cache = None
    /\ cache_time = 0
    /\ now = 0
    /\ vpc = [c \in Callers |-> "idle"]
    /\ vforce = [c \in Callers |-> FALSE]
    /\ vtime = [c \in Callers |-> 0]
    /\ vret = None
    /\ lastFetch = None

\* one request
Init == InitFor({1})

\* ------------------------------------------------------------------------
\* main.py: the request layer
\* ------------------------------------------------------------------------

MinTextLen == 1
PostMaxTextLen == 4000
DirectMaxTextLen == 2000

\* TTSRequest: text has min_length=1, max_length=4000;
\* target_duration_ms is Optional[int] with no bound
ValidTTSRequest(t, target) ==
    /\ TextLen(t) >= MinTextLen
    /\ TextLen(t) <= PostMaxTextLen

\* GET /tts/direct: text is Query(..., min_length=1, max_length=2000);
\* target_duration_ms is Optional[int] = Query(None)
ValidDirectQuery(t, target) ==
    /\ TextLen(t) >= MinTextLen
    /\ TextLen(t) <= DirectMaxTextLen

Request(via, t, prof, volume, target) ==
    [via |-> via, text |-> t, voice |-> prof.voice, rate |-> prof.rate,
     pitch |-> prof.pitch, volume |-> volume, target |-> target]

\* a request is taken up when the event loop is free; one that fails
\* validation is answered 422 and text_to_speech is not called
Arrive(r, request, valid) ==
    /\ pc[r] = "idle"
    /\ running = None
    /\ req' = [req EXCEPT ![r] = request]
    /\ IF valid
       THEN /\ pc' = [pc EXCEPT ![r] = "fit"]
            /\ running' = Some(r)
       ELSE /\ pc' = [pc EXCEPT ![r] = "rejected"]
            /\ running' = running
    /\ UNCHANGED <<text, path, rate, pass, success, actual, result, fs,
                   calls, raised, rets, measured, unlinks, divisors,
                   extras, creates>>
    /\ UNCHANGED <<handlerVars, cacheVars>>

\* POST /tts
PostTts(r) ==
    \E t \in Texts, prof \in Profiles, target \in Targets :
        Arrive(r, Request("post", t, prof, prof.volume, target),
               ValidTTSRequest(t, target))

\* GET /tts/direct: volume is not passed on, text_to_speech takes its default
TextToSpeechDirect(r) ==
    \E t \in Texts, prof \in Profiles, target \in Targets :
        Arrive(r, Request("direct", t, prof, DefaultVolume, target),
               ValidDirectQuery(t, target))

\* tts_service.text_to_speech called by any other caller, with any arguments
CallService(r) ==
    \E t \in Texts, prof \in Profiles, target \in Targets :
        Arrive(r, Request("call", t, prof, prof.volume, target), TRUE)

\* ------------------------------------------------------------------------
\* tts_service.py: EdgeTTSService
\* ------------------------------------------------------------------------

Failure(msg) ==
    [success |-> FALSE, path |-> None, duration |-> 0, error |-> Some(msg)]

SuccessResult_ZeroDuration(p, duration) ==
    [success |-> TRUE, path |-> p, duration |-> 0, error |-> None]

SuccessResult(p, duration) ==
    [success |-> TRUE, path |-> p, duration |-> duration, error |-> None]

EmptyTextMsg == "Ures szoveg"
InitialFailedMsg == "Elso generalas sikertelen"
ResynthFailedMsg == "Ujrageneralas sikertelen"

Returns(r, outcome) ==
    /\ result' = [result EXCEPT ![r] = Some(outcome)]
    /\ pc' = [pc EXCEPT ![r] = "returned"]
    /\ running' = None

\* text_to_speech, lines 111-123: the empty check, the truncation and the
\* temporary file (NamedTemporaryFile creates a file no other file has the
\* name of, and leaves it empty)
\* NamedTemporaryFile (line 121) creates its file exclusively: it takes a
\* name under which no file exists
NameIsFree_Any(files, p) == TRUE

NameIsFree(files, p) == ~files[p].exists

TextToSpeech(r) ==
    /\ pc[r] = "fit"
    /\ running = Some(r)
    /\ IF IsBlank(req[r].text)
       THEN /\ Returns(r, Failure(EmptyTextMsg))
            /\ UNCHANGED <<text, path, rate, pass, fs, creates>>
       ELSE \E p \in Paths :
               /\ NameIsFree(fs, p)
               /\ text' = [text EXCEPT ![r] = Truncate(req[r].text)]
               /\ path' = [path EXCEPT ![r] = Some(p)]
               /\ fs' = [fs EXCEPT ![p] = File(0, None)]
               /\ creates' = [creates EXCEPT ![r] = @ + 1]
               /\ rate' = [rate EXCEPT ![r] = req[r].rate]
               /\ pass' = [pass EXCEPT ![r] = 1]
               /\ pc' = [pc EXCEPT ![r] = "generate"]
               /\ UNCHANGED <<running, result>>
    /\ UNCHANGED <<req, success, actual, calls, raised, rets, measured,
                   unlinks, divisors, extras>>
    /\ UNCHANGED <<handlerVars, cacheVars>>

\* _generate_audio, line 82 and line 85: what it returns
GenerateResult_IgnoreRaise(didRaise, file) == file.exists /\ file.size > 0

GenerateResult_NoSizeCheck(didRaise, file) ==
    IF didRaise THEN FALSE ELSE file.exists

GenerateResult(didRaise, file) ==
    IF didRaise THEN FALSE ELSE file.exists /\ file.size > 0

CallArgs_RequestRate(r) ==
    [text |-> text[r], voice |-> req[r].voice, rate |-> req[r].rate,
     pitch |-> req[r].pitch, volume |-> req[r].volume, path |-> path[r]]

CallArgs(r) ==
    [text |-> text[r], voice |-> req[r].voice, rate |-> rate[r],
     pitch |-> req[r].pitch, volume |-> req[r].volume, path |-> path[r]]

\* _generate_audio, lines 73-81 up to the first suspension: either
\* edge_tts.Communicate(...) raises (it validates its arguments), or
\* communicate.save opens output_path for writing, which empties or creates
\* the file, and waits for the backend
GenerateAudio(r) ==
    /\ pc[r] = "generate"
    /\ running = Some(r)
    /\ calls' = [calls EXCEPT ![r] = Append(@, CallArgs(r))]
    /\ \/ /\ raised' = [raised EXCEPT ![r] = Append(@, TRUE)]
          /\ success' = [success EXCEPT ![r] =
                            GenerateResult(TRUE, fs[path[r][1]])]
          /\ rets' = [rets EXCEPT ![r] =
                         Append(@, GenerateResult(TRUE, fs[path[r][1]]))]
          /\ pc' = [pc EXCEPT ![r] = "generated"]
          /\ UNCHANGED <<fs, running, creates>>
       \/ /\ fs' = [fs EXCEPT ![path[r][1]] = File(0, None)]
          /\ creates' = [creates EXCEPT ![r] =
                            IF fs[path[r][1]].exists THEN @ ELSE @ + 1]
          /\ pc' = [pc EXCEPT ![r] = "saving"]
          /\ running' = None
          /\ UNCHANGED <<raised, success, rets>>
    /\ UNCHANGED <<req, text, path, rate, pass, actual, result, measured,
                   unlinks, divisors, extras>>
    /\ UNCHANGED <<handlerVars, cacheVars>>

\* what the backend has put into the file when save ends by raising, and
\* when it ends by returning
PartialFiles == {File(0, None), File(512, None)}
WrittenFiles == {File(0, None)} \cup {File(2048, a) : a \in Audios}

\* _generate_audio, lines 81-85 from the suspension on: communicate.save
\* raises or returns, and the coroutine goes on with the result
SaveEndsWith(r, partial, written) ==
    /\ pc[r] = "saving"
    /\ running = None
    /\ \E didRaise \in BOOLEAN :
         \E f \in IF didRaise THEN partial ELSE written :
            /\ fs' = [fs EXCEPT ![path[r][1]] = f]
            /\ raised' = [raised EXCEPT ![r] = Append(@, didRaise)]
            /\ success' = [success EXCEPT ![r] = GenerateResult(didRaise, f)]
            /\ rets' = [rets EXCEPT ![r] =
                           Append(@, GenerateResult(didRaise, f))]
    /\ pc' = [pc EXCEPT ![r] = "generated"]
    /\ running' = Some(r)
    /\ UNCHANGED <<req, text, path, rate, pass, actual, result, calls,
                   measured, unlinks, divisors, extras, creates>>
    /\ UNCHANGED <<handlerVars, cacheVars>>

SaveEnds(r) == SaveEndsWith(r, PartialFiles, WrittenFiles)

\* _get_mp3_duration_ms: the length mutagen reads, 0 when MP3() raises
Mp3DurationMs_Sentinel(file) ==
    IF file.exists /\ file.audio # None THEN file.audio[1] ELSE -1

Mp3DurationMs(file) ==
    IF file.exists /\ file.audio # None THEN file.audio[1] ELSE 0

\* `if not success` (line 127) and the else of `if success` (line 156)
GenerateFailed_Ignored(ok) == FALSE

GenerateFailed(ok) == ~ok

\* text_to_speech, lines 153-159: after the re-synthesis and its measurement
\* the function returns
AfterResynthesis_Again == "decide"

AfterResynthesis == "return"

\* text_to_speech, lines 127-131 (first pass) and 153-157 (second pass)
Generated(r) ==
    /\ pc[r] = "generated"
    /\ running = Some(r)
    /\ IF GenerateFailed(success[r])
       THEN /\ Returns(r, Failure(IF pass[r] = 1 THEN InitialFailedMsg
                                                  ELSE ResynthFailedMsg))
            /\ UNCHANGED <<actual, measured>>
       ELSE /\ actual' = [actual EXCEPT ![r] = Mp3DurationMs(fs[path[r][1]])]
            /\ measured' = [measured EXCEPT ![r] =
                               Append(@, [audio |-> fs[path[r][1]].audio,
                                          ms |-> Mp3DurationMs(
                                                     fs[path[r][1]])])]
            /\ pc' = [pc EXCEPT ![r] =
                         IF pass[r] = 1 THEN "decide" ELSE AfterResynthesis]
            /\ UNCHANGED <<running, result>>
    /\ UNCHANGED <<req, text, path, rate, pass, success, fs, calls, raised,
                   rets, unlinks, divisors, extras, creates>>
    /\ UNCHANGED <<handlerVars, cacheVars>>

\* `target_duration_ms and ...`: None and 0 are false
Truthy_NotNone(target) == target # None

Truthy(target) == target # None /\ target[1] # 0

\* line 135
Overshoot(duration, target) == Truthy(target) /\ duration > target[1]

MaxExtraRate == 25

\* lines 141-142
ClampRate(p) == IF p > MaxExtraRate THEN MaxExtraRate ELSE p

\* text_to_speech, lines 135-150: the decision, the new rate and the removal
\* of the first file; a division by zero on line 137 raises
\* ZeroDivisionError, which leaves text_to_speech
Decide(r) ==
    /\ pc[r] = "decide"
    /\ running = Some(r)
    /\ IF Overshoot(actual[r], req[r].target)
       THEN /\ divisors' = [divisors EXCEPT ![r] =
                               Append(@, req[r].target[1])]
            /\ IF req[r].target[1] = 0
               THEN /\ pc' = [pc EXCEPT ![r] = "raised"]
                    /\ running' = None
                    /\ UNCHANGED <<rate, fs, unlinks, pass, extras>>
               ELSE LET extra == ClampRate(ExtraRatePercent(actual[r],
                                                         req[r].target[1]))
                    IN  /\ extras' = [extras EXCEPT ![r] = Append(@, extra)]
                        /\ running' = running
                        /\ IF extra > 0
                           THEN /\ rate' = [rate EXCEPT ![r] =
                                               FormatRate(extra)]
                                /\ IF fs[path[r][1]].exists
                                   THEN /\ fs' = [fs EXCEPT
                                                    ![path[r][1]] = NoFile]
                                        /\ unlinks' = [unlinks EXCEPT
                                                         ![r] = @ + 1]
                                   ELSE UNCHANGED <<fs, unlinks>>
                                /\ pass' = [pass EXCEPT ![r] = 2]
                                /\ pc' = [pc EXCEPT ![r] = "generate"]
                           ELSE /\ pc' = [pc EXCEPT ![r] = "return"]
                                /\ UNCHANGED <<rate, fs, unlinks, pass>>
       ELSE /\ pc' = [pc EXCEPT ![r] = "return"]
            /\ UNCHANGED <<running, rate, fs, unlinks, pass, divisors,
                           extras>>
    /\ UNCHANGED <<req, text, path, success, actual, result, calls, raised,
                   rets, measured, creates>>
    /\ UNCHANGED <<handlerVars, cacheVars>>

\* text_to_speech, line 159
Return(r) ==
    /\ pc[r] = "return"
    /\ running = Some(r)
    /\ Returns(r, SuccessResult(path[r], actual[r]))
    /\ UNCHANGED <<req, text, path, rate, pass, success, actual, fs, calls,
                   raised, rets, measured, unlinks, divisors, extras, creates>>
    /\ UNCHANGED <<handlerVars, cacheVars>>

Next ==
    \/ \E r \in Reqs : PostTts(r)
    \/ \E r \in Reqs : TextToSpeechDirect(r)
    \/ \E r \in Reqs : CallService(r)
    \/ \E r \in Reqs : TextToSpeech(r)
    \/ \E r \in Reqs : GenerateAudio(r)
    \/ \E r \in Reqs : SaveEnds(r)
    \/ \E r \in Reqs : Generated(r)
    \/ \E r \in Reqs : Decide(r)
    \/ \E r \in Reqs : Return(r)

Spec == Init /\ [][Next]_vars

\* ------------------------------------------------------------------------
\* Properties
\* ------------------------------------------------------------------------

Returned(r) == pc[r] = "returned"

\* what text_to_speech returned to request r
Outcome(r) == result[r][1]

HasTarget(r) == req[r].target # None

Last(q) == q[Len(q)]

Min(a, b) == IF a < b THEN a ELSE b

CharDigit(c) == CHOOSE d \in 0..9 : Digit(d) = c

RECURSIVE CharsToNat(_)
CharsToNat(q) ==
    IF q = << >> THEN 0
    ELSE 10 * CharsToNat(SubSeq(q, 1, Len(q) - 1)) + CharDigit(Last(q))

\* q reads "+P%" with P in decimal digits
IsPlusPercent(q, P) ==
    /\ Len(q) >= 3
    /\ q[1] = "+"
    /\ Last(q) = "%"
    /\ \A i \in 2..(Len(q) - 1) : \E d \in 0..9 : Digit(d) = q[i]
    /\ CharsToNat(SubSeq(q, 2, Len(q) - 1)) = P

\* min(25, floor((actualMs / targetDurationMs - 1) * 100)) in exact integer
\* arithmetic, for actualMs > targetDurationMs > 0
ExactPercent(a, t) == Min(25, (100 * (a - t)) \div t)

\* the initial synthesis succeeded, a positive target was given and the first
\* measured duration exceeds it
Overshot(r) ==
    /\ Len(measured[r]) >= 1
    /\ HasTarget(r)
    /\ req[r].target[1] > 0
    /\ measured[r][1].ms > req[r].target[1]

\* C1: when a positive target is given and the first measured duration
\* exceeds it, a second _generate_audio call is made with rate "+P%", where
\* P = min(25, floor((actualMs / targetDurationMs - 1) * 100)) exactly, and
\* no second call is made when P is 0.
C1_RateIsExactPercent ==
    \A r \in Reqs :
        (Returned(r) /\ Overshot(r)) =>
            LET P == ExactPercent(measured[r][1].ms, req[r].target[1])
            IN  IF P = 0
                THEN Len(calls[r]) = 1
                ELSE /\ Len(calls[r]) = 2
                     /\ IsPlusPercent(calls[r][2].rate, P)

\* C2: a request makes at most two _generate_audio calls; after a successful
\* corrective pass text_to_speech returns Success with the second measured
\* duration, whether or not that duration still exceeds the target.
C2_AtMostTwoCalls ==
    \A r \in Reqs :
        /\ Len(calls[r]) <= 2
        /\ (Returned(r) /\ Len(calls[r]) = 2 /\ rets[r][2]) =>
              /\ Len(measured[r]) = 2
              /\ Outcome(r).success
              /\ Outcome(r).path = path[r]
              /\ Outcome(r).duration = measured[r][2].ms

C2_Witness ==
    \E r \in Reqs :
        /\ Returned(r)
        /\ Len(calls[r]) = 2
        /\ Len(measured[r]) = 2
        /\ HasTarget(r)
        /\ measured[r][2].ms > req[r].target[1]
        /\ req[r].target[1] > 0
        /\ Outcome(r).success

\* C3: if the initial synthesis succeeds and no target was requested or the
\* first measured duration is at most the target, there is exactly one
\* _generate_audio call, the first artifact is neither deleted nor written
\* again, and Success is returned with its path and the first measured
\* duration.
C3_AcceptedAsIs ==
    \A r \in Reqs :
        (/\ Returned(r)
         /\ Len(rets[r]) >= 1
         /\ rets[r][1]
         /\ (~HasTarget(r) \/ measured[r][1].ms <= req[r].target[1])) =>
            /\ Len(calls[r]) = 1
            /\ unlinks[r] = 0
            /\ fs[path[r][1]].exists
            /\ fs[path[r][1]].audio = measured[r][1].audio
            /\ Outcome(r).success
            /\ Outcome(r).path = path[r]
            /\ Outcome(r).duration = measured[r][1].ms
            /\ Outcome(r).error = None

C3_Witness ==
    \E r \in Reqs :
        /\ Returned(r)
        /\ Len(rets[r]) = 1
        /\ rets[r][1]
        /\ req[r].target = Some(1000)
        /\ measured[r][1].ms = 1000
        /\ Outcome(r).success
        /\ Outcome(r).duration = 1000

AllWhitespace(t) == \A i \in 1..Len(t) : t[i].c \in Whitespace

\* the pass whose _generate_audio call returned False, 0 when none did
FailedPass(r) ==
    IF \E i \in 1..Len(rets[r]) : ~rets[r][i]
    THEN CHOOSE i \in 1..Len(rets[r]) : ~rets[r][i]
    ELSE 0

\* C4: when _generate_audio fails at the initial or at the corrective pass,
\* text_to_speech returns success = False, no path, and the error message of
\* that pass; a path is returned only together with success = True.
C4_FailureHasNoPath ==
    \A r \in Reqs :
        Returned(r) =>
            /\ (FailedPass(r) # 0) =>
                  /\ ~Outcome(r).success
                  /\ Outcome(r).path = None
                  /\ Outcome(r).error =
                        Some(IF FailedPass(r) = 1 THEN InitialFailedMsg
                                                  ELSE ResynthFailedMsg)
            /\ (Outcome(r).path # None) => Outcome(r).success

C4_Witness ==
    \E r \in Reqs :
        /\ Returned(r)
        /\ FailedPass(r) = 2
        /\ ~Outcome(r).success
        /\ Outcome(r).path = None

\* text_to_speech returned a Failure for a failed initial synthesis or a
\* failed re-synthesis
SynthesisFailure(r) ==
    /\ Returned(r)
    /\ ~Outcome(r).success
    /\ Outcome(r).error \in {Some(InitialFailedMsg), Some(ResynthFailedMsg)}

\* C5: when text_to_speech returns a Failure for a failed initial synthesis
\* or a failed re-synthesis, no file is left at the temporary path that was
\* allocated for the request.
C5_NoFileLeftOnFailure ==
    \A r \in Reqs :
        SynthesisFailure(r) => ~fs[path[r][1]].exists

\* C6: for an empty or whitespace-only text, text_to_speech returns the
\* empty-text Failure without calling _generate_audio and without
\* allocating a temporary file.
C6_BlankTextRejected ==
    /\ \A r \in Reqs :
          (req[r].via # "none" /\ AllWhitespace(req[r].text)) =>
              /\ pc[r] \in {"fit", "rejected", "returned"}
              /\ calls[r] = << >>
              /\ path[r] = None
              /\ Returned(r) => Outcome(r) = Failure(EmptyTextMsg)
    /\ \A p \in Paths : fs[p].exists => \E q \in Reqs : path[q] = Some(p)

C6_Witness ==
    \E r \in Reqs :
        /\ Returned(r)
        /\ TextLen(req[r].text) > 0
        /\ AllWhitespace(req[r].text)
        /\ Outcome(r) = Failure(EmptyTextMsg)
        /\ \A p \in Paths : ~fs[p].exists

\* character k of a text, 1 <= k <= TextLen(t)
RECURSIVE CharAt(_, _)
CharAt(t, k) ==
    IF k <= Head(t).n THEN Head(t).c ELSE CharAt(Tail(t), k - Head(t).n)

\* s is the first 4000 characters of t followed by "..."
IsTruncationOf(s, t) ==
    /\ TextLen(s) = 4003
    /\ \A k \in 1..4000 : CharAt(s, k) = CharAt(t, k)
    /\ \A k \in 4001..4003 : CharAt(s, k) = "."

\* every _generate_audio call of request r got the text the claim says
CallTextsAsClaimed(r) ==
    \A i \in 1..Len(calls[r]) :
        IF TextLen(req[r].text) > 4000
        THEN IsTruncationOf(calls[r][i].text, req[r].text)
        ELSE calls[r][i].text = req[r].text

\* C7 as stated: for every text longer than 4000 characters the system does
\* not fail because of the length, every _generate_audio call of the request
\* gets the first 4000 characters followed by "...", and a text of at most
\* 4000 characters is passed on unchanged.
C7_NeverFailsOnLength ==
    \A r \in Reqs :
        /\ (req[r].via # "none" /\ TextLen(req[r].text) > 4000) =>
              pc[r] # "rejected"
        /\ CallTextsAsClaimed(r)

\* C7 as amended: for every text longer than 4000 characters that reaches
\* text_to_speech, the call does not fail because of the length (it goes on
\* to _generate_audio), every _generate_audio call of the request gets the
\* first 4000 characters followed by "...", and a text of at most 4000
\* characters is passed on unchanged; POST /tts answers a text longer than
\* 4000 characters, and GET /tts/direct one longer than 2000, with a
\* validation error before text_to_speech is called.
C7_TruncatedInController ==
    \A r \in Reqs :
        /\ CallTextsAsClaimed(r)
        /\ (Returned(r) /\ TextLen(req[r].text) > 4000) =>
              /\ Len(calls[r]) >= 1
              /\ Outcome(r).error # Some(EmptyTextMsg)
        /\ (pc[r] = "rejected" /\ TextLen(req[r].text) > 4000) =>
              req[r].via \in {"post", "direct"}
        /\ (pc[r] \notin {"idle", "rejected"} /\ TextLen(req[r].text) > 4000)
              => req[r].via = "call"

C7_Witness ==
    \E r \in Reqs :
        /\ Returned(r)
        /\ TextLen(req[r].text) > 4000
        /\ Len(calls[r]) = 2
        /\ IsTruncationOf(calls[r][2].text, req[r].text)
        /\ Outcome(r).success

\* C8: _generate_audio returns True exactly when the backend call returned
\* without raising and the file exists afterwards with a size above zero; it
\* returns False whenever the backend raised, also when a non-empty partial
\* file was written before.
C8_GenerateResult ==
    \A r \in Reqs :
        pc[r] = "generated" =>
            /\ Len(rets[r]) = Len(calls[r])
            /\ Len(raised[r]) = Len(calls[r])
            /\ success[r] = Last(rets[r])
            /\ Last(rets[r]) <=>
                  /\ ~Last(raised[r])
                  /\ fs[path[r][1]].exists
                  /\ fs[path[r][1]].size > 0

C8_Witness ==
    \E r \in Reqs :
        /\ pc[r] = "generated"
        /\ Last(raised[r])
        /\ fs[path[r][1]].exists
        /\ fs[path[r][1]].size > 0
        /\ ~Last(rets[r])

\* C9: an artifact that cannot be measured does not make a successful
\* synthesis fail: its duration is taken as 0 and text_to_speech returns
\* Success with duration 0 and the path; an unmeasurable first artifact with
\* a positive target is accepted as it is, with no corrective pass.
C9_UnmeasurableIsZero ==
    \A r \in Reqs :
        /\ \A i \in 1..Len(measured[r]) :
              measured[r][i].audio = None => measured[r][i].ms = 0
        /\ (/\ Returned(r)
            /\ Len(measured[r]) >= 1
            /\ Len(measured[r]) = Len(calls[r])
            /\ Last(measured[r]).audio = None) =>
              /\ Outcome(r).success
              /\ Outcome(r).duration = 0
              /\ Outcome(r).path = path[r]
        /\ (/\ Returned(r)
            /\ Len(measured[r]) >= 1
            /\ measured[r][1].audio = None
            /\ HasTarget(r)
            /\ req[r].target[1] > 0) =>
              /\ Len(calls[r]) = 1
              /\ unlinks[r] = 0
              /\ Outcome(r).success

C9_Witness ==
    \E r \in Reqs :
        /\ Returned(r)
        /\ Len(measured[r]) = 1
        /\ measured[r][1].audio = None
        /\ req[r].target = Some(1000)
        /\ Outcome(r).success
        /\ Outcome(r).duration = 0
        /\ Outcome(r).path = path[r]

\* C10: for a request accepted by POST /tts or GET /tts/direct, a target
\* that reaches the overshoot computation (the division by the target) is
\* strictly greater than 0, request validation having rejected zero and
\* negative targets.
C10_TargetPositiveAtDivision ==
    \A r \in Reqs :
        req[r].via \in {"post", "direct"} =>
            \A i \in 1..Len(divisors[r]) : divisors[r][i] > 0


\* ---- C11 ----

EllipsisLen == TextLen(Ellipsis)

\* C11 (as stated): every text that text_to_speech passes to the synthesizer
\* is non-empty and at most 4000 characters long, whatever the input text.
C11_CallTextAtMost4000 ==
    \A r \in Reqs :
        \A i \in 1..Len(calls[r]) :
            /\ TextLen(calls[r][i].text) >= 1
            /\ TextLen(calls[r][i].text) <= MaxTextLen

\* C11 (amended): every text that text_to_speech passes to the synthesizer
\* is non-empty and at most 4003 characters long: an input of at most 4000
\* characters is passed unchanged, a longer one as 4003 characters (its
\* first 4000 followed by the three-character ellipsis).
C11_CallTextAtMost4003 ==
    \A r \in Reqs :
        \A i \in 1..Len(calls[r]) :
            LET n == TextLen(calls[r][i].text)
                m == TextLen(req[r].text)
            IN  /\ n >= 1
                /\ n <= MaxTextLen + EllipsisLen
                /\ m <= MaxTextLen => calls[r][i].text = req[r].text
                /\ m > MaxTextLen => n = MaxTextLen + EllipsisLen

C11_Witness ==
    \E r \in Reqs :
        /\ Len(calls[r]) = 2
        /\ TextLen(req[r].text) > MaxTextLen
        /\ TextLen(calls[r][2].text) = 4003


\* ---- C15 ----

\* C15: whenever text_to_speech enters the overshoot branch, the clamped
\* extra_rate_percent lies in 0..25 and is never negative, for every target
\* the controller can be called with.
C15_ExtraRateInRange ==
    \A r \in Reqs :
        /\ Len(extras[r]) <= Len(divisors[r])
        /\ \A i \in 1..Len(extras[r]) :
               extras[r][i] >= 0 /\ extras[r][i] <= MaxExtraRate


\* ---- C19 ----

\* C19: text_to_speech never divides by a zero target: the ratio is computed
\* only for a non-zero target, no ZeroDivisionError leaves the call, and a
\* request with target 0 is handled like one without a target: one
\* synthesizer call, nothing unlinked, the first artifact returned as
\* Success with its measured duration.
C19_NoZeroDivisor ==
    \A r \in Reqs :
        /\ \A i \in 1..Len(divisors[r]) : divisors[r][i] # 0
        /\ pc[r] # "raised"
        /\ req[r].target = Some(0) =>
              /\ divisors[r] = << >>
              /\ Len(calls[r]) <= 1
              /\ unlinks[r] = 0
              /\ (Returned(r) /\ Len(rets[r]) = 1 /\ rets[r][1]) =>
                    /\ Outcome(r).success
                    /\ Outcome(r).path = path[r]
                    /\ Outcome(r).duration = measured[r][1].ms

C19_Witness ==
    \E r \in Reqs :
        /\ req[r].target = Some(0)
        /\ Returned(r)
        /\ Outcome(r).success
        /\ Outcome(r).duration = 1150
        /\ Len(calls[r]) = 1


\* ---- C16 ----

\* C16: when a corrective pass runs, the first file has been deleted before
\* the second synthesizer call starts, and that call receives the text,
\* voice, pitch, volume and path of the first call; its rate is "+P%" with
\* P in 1..25 fixed by the measured and the target duration (the exact
\* percentage or, by the rounding of the division, one below it), whatever
\* rate the request carried.
C16_SecondCallFrame ==
    \A r \in Reqs :
        /\ (pass[r] = 2 /\ pc[r] = "generate") =>
              /\ unlinks[r] = 1
              /\ ~fs[path[r][1]].exists
        /\ Len(calls[r]) = 2 =>
              LET first == calls[r][1]
                  second == calls[r][2]
                  m == measured[r][1].ms
                  t == req[r].target[1]
              IN  /\ unlinks[r] = 1
                  /\ second.text = first.text
                  /\ second.voice = first.voice
                  /\ second.pitch = first.pitch
                  /\ second.volume = first.volume
                  /\ second.path = first.path
                  /\ first.rate = req[r].rate
                  /\ t > 0 /\ m > t
                  /\ \E P \in 1..MaxExtraRate :
                         /\ IsPlusPercent(second.rate, P)
                         /\ P \in {ExactPercent(m, t) - 1, ExactPercent(m, t)}
                         /\ P = Last(extras[r])

C16_Witness ==
    \E r \in Reqs :
        /\ Len(calls[r]) = 2
        /\ req[r].rate # DefaultRate
        /\ calls[r][1].rate = req[r].rate
        /\ calls[r][2].rate = FormatRate(5)
        /\ calls[r][2].voice = req[r].voice


\* ---- C17 ----

\* the files that exist at the path request r holds
FilesOf(r) == {p \in Paths : path[r] = Some(p) /\ fs[p].exists}

\* C17: over the life of one request at most two files are created and
\* written (one per synthesizer call), never more than one exists at a time,
\* and no file exists elsewhere; when text_to_speech returns Success exactly
\* one file exists, at the returned path and non-empty, and the returned
\* duration is the measurement of that file: the last of as many measurements
\* as there were synthesizer calls.
C17_OneFilePerRequest ==
    \A r \in Reqs :
        /\ creates[r] <= 2
        /\ creates[r] <= 1 + unlinks[r]
        /\ Len(calls[r]) <= 2
        /\ Cardinality(FilesOf(r)) <= 1
        /\ Cardinality({p \in Paths : fs[p].exists}) <= Cardinality(Reqs)
        /\ (Returned(r) /\ Outcome(r).success) =>
              /\ Outcome(r).path = path[r]
              /\ Cardinality(FilesOf(r)) = 1
              /\ \A p \in FilesOf(r) :
                     /\ fs[p].size > 0
                     /\ Outcome(r).duration = Mp3DurationMs(fs[p])
              /\ Len(measured[r]) = Len(calls[r])
              /\ Outcome(r).duration = Last(measured[r]).ms
              /\ Last(measured[r]).audio = fs[path[r][1]].audio

C17_Witness ==
    \E r \in Reqs :
        /\ Returned(r)
        /\ Outcome(r).success
        /\ creates[r] = 2
        /\ Len(measured[r]) = 2
        /\ measured[r][1].ms = 1150
        /\ Outcome(r).duration = 1000
        /\ FilesOf(r) # {}


\* ---- C14 ----

SingleReq == {1}

\* the steps of one text_to_speech invocation other than the decision, the
\* end of its backend call included
FitStep(r) ==
    \/ TextToSpeech(r)
    \/ GenerateAudio(r)
    \/ SaveEnds(r)
    \/ Generated(r)
    \/ Return(r)

\* what a Decide step does to the position of r: lines 135-150 have no
\* suspension point, so the step is enabled whenever r is at the decision
DecideMoves(r) ==
    /\ pc[r] = "decide"
    /\ running = Some(r)
    /\ \E next \in {"generate", "return", "raised"} :
           pc' = [pc EXCEPT ![r] = next]

\* the event loop runs a coroutine that is ready, and every backend call
\* ends (by returning or raising)
FairSpec ==
    Spec /\ \A r \in SingleReq : WF_vars(FitStep(r)) /\ WF_pc(DecideMoves(r))

\* the state of the per-request state machine that invocation r is in
Phase(r) ==
    CASE pc[r] \in {"idle", "rejected"} -> "NotStarted"
      [] pc[r] = "fit" -> "Start"
      [] pc[r] \in {"generate", "saving"} ->
            IF pass[r] = 1 THEN "Start" ELSE "Measured"
      [] pc[r] = "generated" ->
            IF pass[r] = 1
            THEN IF success[r] THEN "Synthesized" ELSE "Start"
            ELSE IF success[r] THEN "CorrectedSynthesized" ELSE "Measured"
      [] pc[r] = "decide" -> "Measured"
      [] pc[r] = "return" ->
            IF pass[r] = 1 THEN "Measured" ELSE "Remeasured"
      [] pc[r] = "returned" ->
            IF ~Outcome(r).success THEN "Failed"
            ELSE IF pass[r] = 1 THEN "AcceptedAsIs" ELSE "Final"
      [] OTHER -> "Raised"

PhaseEdges ==
    {<<"NotStarted", "Start">>,
     <<"Start", "Synthesized">>, <<"Start", "Failed">>,
     <<"Synthesized", "Measured">>,
     <<"Measured", "AcceptedAsIs">>, <<"Measured", "CorrectedSynthesized">>,
     <<"Measured", "Failed">>,
     <<"CorrectedSynthesized", "Remeasured">>,
     <<"Remeasured", "Final">>}

Terminal(r) == Phase(r) \in {"AcceptedAsIs", "Final", "Failed"}

\* C14: each invocation moves along Start -> Synthesized -> Measured ->
\* {AcceptedAsIs | CorrectedSynthesized -> Remeasured -> Final} | Failed:
\* every change of state is one of these edges (so no state is entered
\* twice and nothing leaves AcceptedAsIs, Final or Failed), and, every
\* backend call ending, a started invocation eventually is in a terminal
\* state.
C14_StateMachine ==
    /\ [][\A r \in SingleReq :
             Phase(r)' # Phase(r) => <<Phase(r), Phase(r)'>> \in PhaseEdges]_vars
    /\ \A r \in SingleReq : (Phase(r) = "Start") ~> Terminal(r)

C14_Witness ==
    \E r \in Reqs :
        /\ Phase(r) = "Final"
        /\ Len(calls[r]) = 2
        /\ Len(measured[r]) = 2


\* ---- C12 ----

\* The caller cancels the task while text_to_speech is suspended in
\* communicate.save (line 81, reached from line 125 or 152): CancelledError
\* is raised at the await; it is a BaseException, so `except Exception` on
\* line 84 does not catch it and it leaves _generate_audio and
\* text_to_speech, neither of which has a finally clause. The file that save
\* opened stays as far as it was written.
Cancel(r) ==
    /\ pc[r] = "saving"
    /\ running = None
    /\ \E f \in PartialFiles : fs' = [fs EXCEPT ![path[r][1]] = f]
    /\ pc' = [pc EXCEPT ![r] = "cancelled"]
    /\ UNCHANGED <<running, req, text, path, rate, pass, success, actual,
                   result, calls, raised, rets, measured, unlinks, divisors,
                   extras, creates>>
    /\ UNCHANGED <<handlerVars, cacheVars>>

NextCancel ==
    \/ Next
    \/ \E r \in Reqs : Cancel(r)

SpecCancel == Init /\ [][NextCancel]_vars

\* C12: once a text_to_speech that was cancelled in either synthesizer call
\* has unwound, no file exists at the path allocated for that request.
C12_NoFileAfterCancel ==
    \A r \in Reqs :
        (pc[r] = "cancelled" /\ path[r] # None) => ~fs[path[r][1]].exists


\* ---- C13 ----

\* Concurrent invocations: as many requests as there are file names, each
\* calling text_to_speech without a target or with one that the synthesis
\* overshoots,
\* interleaved at the suspension points by the event loop (the running
\* token).
InitConc == InitFor(Paths)

ConcText == <<Run("t", 5)>>

ConcCall(r) ==
    \E target \in {None, Some(1000)} :
        Arrive(r, Request("call", ConcText,
                          [voice |-> DefaultVoice, rate |-> DefaultRate,
                           pitch |-> DefaultPitch, volume |-> DefaultVolume],
                          DefaultVolume, target), TRUE)

\* the backend's save ends: raising with an empty file, or having written a
\* file of 1150 ms
ConcSaveEnds(r) ==
    SaveEndsWith(r, {File(0, None)}, {File(2048, Some(1150))})

NextConc ==
    \/ \E r \in Reqs : ConcCall(r)
    \/ \E r \in Reqs : TextToSpeech(r)
    \/ \E r \in Reqs : GenerateAudio(r)
    \/ \E r \in Reqs : ConcSaveEnds(r)
    \/ \E r \in Reqs : Generated(r)
    \/ \E r \in Reqs : Decide(r)
    \/ \E r \in Reqs : Return(r)

SpecConc == InitConc /\ [][NextConc]_vars

\* r is inside text_to_speech and holds a path
InFlight(r) ==
    pc[r] \in {"generate", "saving", "generated", "decide", "return"}

\* C13: with invocations interleaved at their suspension points, two
\* in-flight requests never hold the same path (also between the unlink of
\* the first file and the second synthesis), and a step that creates,
\* overwrites or deletes a file, or measures one, is taken by a request at
\* its own path, which no other in-flight request holds.
C13_PathsDisjoint ==
    /\ [](\A r, q \in Paths :
             (r # q /\ InFlight(r) /\ InFlight(q)) => path[r] # path[q])
    /\ [][\A p \in Paths :
             fs'[p] # fs[p] =>
                \E r \in Paths :
                    /\ pc'[r] # pc[r]
                    /\ path'[r] = Some(p)
                    /\ \A q \in Paths \ {r} :
                           InFlight(q) => path[q] # Some(p)]_vars
    /\ [][\A r \in Paths :
             measured'[r] # measured[r] =>
                /\ Last(measured'[r]).audio = fs[path[r][1]].audio
                /\ \A q \in Paths \ {r} :
                       InFlight(q) => path[q] # path[r]]_vars

C13_Witness ==
    \E r, q \in Reqs :
        /\ r # q
        /\ pc[r] = "saving" /\ pass[r] = 2 /\ unlinks[r] = 1
        /\ pc[q] = "saving" /\ pass[q] = 1
        /\ path[r] # path[q]


\* ---- C18 ----

\* main.py: delay_seconds=300 on lines 187 and 242
RetentionDelay == 300

\* main.py, `if success and file_path:` on lines 175 and 236 (on line 238
\* background_tasks is the object FastAPI injects, which is truthy)
ShouldSchedule_Always(o) == TRUE

ShouldSchedule(o) == o.success /\ o.path # None

\* background_tasks.add_task(delayed_cleanup, file_path, delay_seconds=300)
Task(p) == [path |-> p, left |-> RetentionDelay, done |-> FALSE]

\* POST /tts, lines 175-205, and GET /tts/direct, lines 236-254: what the
\* handler does with the tuple text_to_speech returned
Respond(r) ==
    /\ pc[r] = "returned"
    /\ req[r].via \in {"post", "direct"}
    /\ tasks' = [tasks EXCEPT ![r] =
                    IF ShouldSchedule(Outcome(r))
                    THEN Append(@, Task(Outcome(r).path))
                    ELSE @]
    /\ pc' = [pc EXCEPT ![r] = "responded"]
    /\ UNCHANGED <<running, req, text, path, rate, pass, success, actual,
                   result, fs, calls, raised, rets, measured, unlinks,
                   divisors, extras, creates, cacheVars>>

Max(a, b) == IF a > b THEN a ELSE b

\* time passes for the tasks that are in asyncio.sleep (main.py line 263)
TimePasses ==
    /\ \E r \in Reqs : \E i \in 1..Len(tasks[r]) : tasks[r][i].left > 0
    /\ \E d \in {150, 300} :
           tasks' = [r \in Reqs |->
                        [i \in 1..Len(tasks[r]) |->
                            [tasks[r][i] EXCEPT !.left = Max(0, @ - d)]]]
    /\ UNCHANGED <<pc, running, req, text, path, rate, pass, success, actual,
                   result, fs, calls, raised, rets, measured, unlinks,
                   divisors, extras, creates, cacheVars>>

\* delayed_cleanup after its sleep (main.py line 264): cleanup_file
\* (tts_service.py lines 161-168) unlinks the file if it exists; what it
\* raises is logged and dropped
DelayedCleanup(r) ==
    /\ \E i \in 1..Len(tasks[r]) :
          /\ tasks[r][i].left = 0
          /\ ~tasks[r][i].done
          /\ tasks' = [tasks EXCEPT ![r][i].done = TRUE]
          /\ LET p == tasks[r][i].path
             IN  IF p # None /\ fs[p[1]].exists
                 THEN fs' = [fs EXCEPT ![p[1]] = NoFile]
                 ELSE fs' = fs
    /\ UNCHANGED <<pc, running, req, text, path, rate, pass, success, actual,
                   result, calls, raised, rets, measured, unlinks,
                   divisors, extras, creates, cacheVars>>

NextHandler ==
    \/ \E r \in Reqs : PostTts(r)
    \/ \E r \in Reqs : TextToSpeechDirect(r)
    \/ \E r \in Reqs : TextToSpeech(r)
    \/ \E r \in Reqs : GenerateAudio(r)
    \/ \E r \in Reqs : SaveEnds(r)
    \/ \E r \in Reqs : Generated(r)
    \/ \E r \in Reqs : Decide(r)
    \/ \E r \in Reqs : Return(r)
    \/ \E r \in Reqs : Respond(r)
    \/ TimePasses
    \/ \E r \in Reqs : DelayedCleanup(r)

SpecHandler == Init /\ [][NextHandler]_vars

\* the server keeps running: the handler goes on after text_to_speech has
\* returned, the event loop's clock advances and a task whose sleep is over
\* is run
FairSpecHandler ==
    /\ SpecHandler
    /\ WF_vars(TimePasses)
    /\ \A r \in SingleReq : WF_vars(Respond(r)) /\ WF_vars(DelayedCleanup(r))


\* text_to_speech has returned Success to the handler of r
HandedOver(r) ==
    /\ pc[r] \in {"returned", "responded"}
    /\ req[r].via \in {"post", "direct"}
    /\ Outcome(r).success

CleanupDone(r) == tasks[r] # << >> /\ tasks[r][1].done

\* C18: an artifact returned as Success to the POST /tts or GET /tts/direct
\* handler stays as it was returned until its cleanup runs; the handler adds
\* exactly one delayed_cleanup task for it, for the returned path, which
\* runs only when the retention delay is over, and the file is eventually
\* deleted; for a Failure outcome the handler adds no task.
C18_CleanupScheduledOnce ==
    /\ [](\A r \in SingleReq :
             /\ Len(tasks[r]) <= 1
             /\ \A i \in 1..Len(tasks[r]) :
                    tasks[r][i].done => tasks[r][i].left = 0
             /\ pc[r] = "responded" =>
                   IF Outcome(r).success
                   THEN /\ Len(tasks[r]) = 1
                        /\ tasks[r][1].path = Outcome(r).path
                   ELSE tasks[r] = << >>
             /\ (HandedOver(r) /\ ~CleanupDone(r)) =>
                   /\ fs[path[r][1]].exists
                   /\ fs[path[r][1]].size > 0
                   /\ fs[path[r][1]].audio = Last(measured[r]).audio)
    /\ \A r \in SingleReq :
           HandedOver(r) ~> (CleanupDone(r) /\ ~fs[path[r][1]].exists)

C18_Witness ==
    \E r \in Reqs :
        /\ pc[r] = "responded"
        /\ req[r].via = "direct"
        /\ Outcome(r).success
        /\ Len(calls[r]) = 2
        /\ CleanupDone(r)
        /\ ~fs[path[r][1]].exists


\* ------------------------------------------------------------------------
\* tts_service.py: the voice list and its cache
\* ------------------------------------------------------------------------

\* self.cache_duration (line 20)
CacheDuration == 3600

\* a voice as edge_tts.list_voices() gives it: whether its Locale starts
\* with "hu", whether it is a Neural voice, and the rank of its display name
\* in alphabetical order
Voice(hu, neural, name) == [hu |-> hu, neural |-> neural, name |-> name]

\* what the backend may answer
BackendLists ==
    { << >>,
      <<Voice(TRUE, TRUE, 2)>>,
      <<Voice(FALSE, TRUE, 1), Voice(TRUE, TRUE, 3), Voice(TRUE, TRUE, 2)>> }

\* the sort key of lines 43-47, as one number
SortKey(v) ==
    (IF v.hu THEN 0 ELSE 100) + (IF v.neural THEN 0 ELSE 10) + v.name

RECURSIVE Insert(_, _)
Insert(v, sorted) ==
    IF sorted = << >> THEN <<v>>
    ELSE IF SortKey(v) < SortKey(Head(sorted)) THEN <<v>> \o sorted
    ELSE <<Head(sorted)>> \o Insert(v, Tail(sorted))

\* lines 31-47: the categorized list, sorted (stably) by the key
RECURSIVE Categorize(_)
Categorize(voices) ==
    IF voices = << >> THEN << >>
    ELSE Insert(Last(voices),
                Categorize(SubSeq(voices, 1, Len(voices) - 1)))

\* the instants at which something happens
Instants == {0, 10, 3599, 3600, 3609}

\* line 26: `not force_refresh and self.voices_cache and
\* (current_time - self.cache_time) < self.cache_duration`
CacheIsFresh(force, cache, age) ==
    /\ ~force
    /\ cache # None /\ cache[1] # << >>
    /\ age < CacheDuration

\* get_available_voices returns list to caller c, after list_voices() has
\* raised or without that
VoicesResult(c, list, didRaise) ==
    Some([to |-> c, list |-> list, raised |-> didRaise])

VoicesReturned(c, list) == VoicesResult(c, list, FALSE)

\* get_available_voices, lines 24-29: up to the return of the cached list
\* or to the suspension in edge_tts.list_voices()
GetVoices(c) ==
    /\ vpc[c] = "idle"
    /\ \E force \in BOOLEAN :
          IF CacheIsFresh(force, voices_cache, now - cache_time)
          THEN /\ vret' = VoicesReturned(c, voices_cache[1])
               /\ UNCHANGED <<vpc, vforce, vtime>>
          ELSE /\ vpc' = [vpc EXCEPT ![c] = "fetching"]
               /\ vforce' = [vforce EXCEPT ![c] = force]
               /\ vtime' = [vtime EXCEPT ![c] = now]
               /\ vret' = vret
    /\ UNCHANGED <<pc, running, req, text, path, rate, pass, success, actual,
                   result, fs, calls, raised, rets, measured, unlinks,
                   divisors, extras, creates, handlerVars, voices_cache,
                   cache_time, now, lastFetch>>

\* lines 57-59: what a failed refresh returns
Fallback_Empty(cache) == << >>

Fallback(cache) == IF cache = None THEN << >> ELSE cache[1]

\* get_available_voices, lines 29-59: list_voices() returns or raises
ListVoicesEnds(c) ==
    /\ vpc[c] = "fetching"
    /\ \/ /\ vret' = VoicesResult(c, Fallback(voices_cache), TRUE)
          /\ UNCHANGED <<voices_cache, cache_time, lastFetch>>
       \/ \E voices \in BackendLists :
             LET categorized == Categorize(voices)
             IN  /\ voices_cache' = Some(categorized)
                 /\ cache_time' = vtime[c]
                 /\ vret' = VoicesReturned(c, categorized)
                 /\ lastFetch' =
                       IF lastFetch = None \/ vtime[c] >= lastFetch[1].t
                       THEN Some([t |-> vtime[c], list |-> categorized])
                       ELSE lastFetch
    /\ vpc' = [vpc EXCEPT ![c] = "idle"]
    /\ vforce' = [vforce EXCEPT ![c] = FALSE]
    /\ vtime' = [vtime EXCEPT ![c] = 0]
    /\ UNCHANGED <<pc, running, req, text, path, rate, pass, success, actual,
                   result, fs, calls, raised, rets, measured, unlinks,
                   divisors, extras, creates, handlerVars, now>>

\* time.time() moves on
Tick ==
    /\ \E later \in Instants : later > now /\ now' = later
    /\ UNCHANGED <<pc, running, req, text, path, rate, pass, success, actual,
                   result, fs, calls, raised, rets, measured, unlinks,
                   divisors, extras, creates, handlerVars, voices_cache,
                   cache_time, vpc, vforce, vtime, vret, lastFetch>>

InitCache == InitFor({})

NextCache ==
    \/ \E c \in Callers : GetVoices(c)
    \/ \E c \in Callers : ListVoicesEnds(c)
    \/ Tick

SpecCache == InitCache /\ [][NextCache]_vars


\* ---- C20 ----

\* caller c starts a call of get_available_voices in this step
StartsCall(c) ==
    /\ vpc[c] = "idle"
    /\ \/ vpc'[c] = "fetching"
       \/ vret' # vret /\ vret'[1].to = c

CacheIsEmpty == voices_cache = None \/ voices_cache[1] = << >>

\* C20: a call contacts the backend only if force_refresh is set, the cache
\* is empty or cache_time is at least 3600 seconds back; and once a fetch
\* made at time t has succeeded with a non-empty list (and the cache still
\* holds a non-empty list), every call without force_refresh made before
\* t + 3600 returns the cached list, without a backend call and without
\* changing cache_time.
C20_CachedForAnHour ==
    [][\A c \in Callers :
          StartsCall(c) =>
             /\ vpc'[c] = "fetching" =>
                   \/ vforce'[c]
                   \/ CacheIsEmpty
                   \/ now - cache_time >= CacheDuration
             /\ (/\ ~vforce'[c]
                 /\ lastFetch # None
                 /\ lastFetch[1].list # << >>
                 /\ ~CacheIsEmpty
                 /\ now < lastFetch[1].t + CacheDuration) =>
                   /\ vpc'[c] = "idle"
                   /\ vret' = VoicesReturned(c, voices_cache[1])
                   /\ cache_time' = cache_time]_vars


\* ---- C21 ----

\* the call of c ends in this step, list_voices() (or the building of the
\* list) having raised
RefreshFails(c) ==
    /\ vpc[c] = "fetching"
    /\ vpc'[c] = "idle"
    /\ vret'[1].to = c
    /\ vret'[1].raised

\* C21: a call of get_available_voices whose backend call fails ends by
\* returning (a caller is only ever before a call or suspended in the
\* backend call), leaves voices_cache and cache_time as they were, and
\* returns the cached list if there is one and the empty list otherwise.
C21_FailedRefreshKeepsCache ==
    /\ [](\A c \in Callers : vpc[c] \in {"idle", "fetching"})
    /\ [][\A c \in Callers :
             RefreshFails(c) =>
                /\ voices_cache' = voices_cache
                /\ cache_time' = cache_time
                /\ voices_cache = None => vret'[1].list = << >>
                /\ voices_cache # None =>
                      vret'[1].list = voices_cache'[1]]_vars

\* a refresh of a stale, non-empty cache has failed and returned that list
C21_Witness ==
    /\ vret # None
    /\ vret[1].raised
    /\ vret[1].list # << >>
    /\ voices_cache = Some(vret[1].list)
    /\ now - cache_time >= CacheDuration

=============================================================================
